---- MODULE Spec2Model ----
(***************************************************************************)
(* State-machine model of framework/alphastrategy.py (BaseStrategy and     *)
(* AlphaStrategy): the task registry and order submission, the diff of     *)
(* goal positions against the ledger, and the rebalance cycle.             *)
(*                                                                         *)
(* Strings that the code builds (identifiers, error messages) are modelled *)
(* as sequences: an identifier is the sequence of its decimal digits, an   *)
(* error message a sequence of tokens, the empty string is <<>>.           *)
(* Python floats are modelled as exact rationals <<num, den>>.             *)
(***************************************************************************)
EXTENDS Integers, Sequences, FiniteSets, TLC

VARIABLES
    trade_date,     \* BaseStrategy.trade_date
    seq_gen,        \* BaseStrategy.seq_gen: per-key counters
    task_map,       \* BaseStrategy.task_map: task_id -> list of entrust_no
    pm_orders,      \* the ledger's order book (pm.add_order)
    position,       \* the ledger's positions: holding security -> curr_size
    universe,       \* context.universe: list of securities
    cash,           \* AlphaStrategy.cash
    position_ratio, \* AlphaStrategy.position_ratio
    weights,        \* AlphaStrategy.weights: None or security -> weight
    goal_positions, \* AlphaStrategy.goal_positions: None or list of goals
    pc_methods,     \* AlphaStrategy.pc_methods: name -> (method, options)
    active_pc_method, \* AlphaStrategy.active_pc_method
    n_cycles,       \* how many times re_balance_plan was called
    placing,        \* None, or the order a thread inside place_order has
                    \* recorded and not yet handed to the gateway
    gw_calls,       \* the gateway calls made by the last operation, in order
    ret             \* what the last operation returned or raised

\* the state of AlphaStrategy on top of BaseStrategy
alpha == <<cash, position_ratio, weights, goal_positions, pc_methods,
           active_pc_method, n_cycles>>

vars == <<trade_date, seq_gen, task_map, pm_orders, position, universe, alpha,
          placing, gw_calls, ret>>

(***************************************************************************)
(* Bounds and input sets                                                   *)
(***************************************************************************)
MaxSeq == 2        \* the counters of seq_gen stay <= MaxSeq under Spec
MaxBatch == 2      \* longest order list handed to place_batch_order
MaxUniv == 2       \* longest universe
MaxPos == 1        \* positions stay within 0 .. MaxPos lots of LotShares

Secs == {"A", "B"}
Dates == {1, 2}                     \* trade dates handed to on_new_day
Keys == {"task_id", "entrust_no"}
Algos == {<<>>, <<"twap">>}         \* algo argument: "" or a named algorithm
GwErrs == {<<>>, <<"rejected">>}    \* what the gateway answers: "" or an error
LotShares == 100
Sizes == {k * LotShares : k \in 0 .. MaxPos}

BUY == "Buy"
SELL == "Sell"
\* A Python value that may be None is the empty set when it is None and the
\* singleton of the value otherwise
None == {}
Some(x) == {x}
Val(o) == CHOOSE x \in o : TRUE

(***************************************************************************)
(* Floats, as exact rationals <<n, d>> in lowest terms with d > 0          *)
(***************************************************************************)
RECURSIVE GCD(_, _)
GCD(a, b) == IF b = 0 THEN a ELSE GCD(b, a % b)

Abs(x) == IF x < 0 THEN -x ELSE x

Rat(n, d) ==
    LET g == GCD(Abs(n), Abs(d))
    IN IF d > 0 THEN <<n \div g, d \div g>> ELSE <<(-n) \div g, (-d) \div g>>

Int2Rat(n) == <<n, 1>>
RAdd(x, y) == Rat(x[1] * y[2] + y[1] * x[2], x[2] * y[2])
RSub(x, y) == Rat(x[1] * y[2] - y[1] * x[2], x[2] * y[2])
RMul(x, y) == Rat(x[1] * y[1], x[2] * y[2])
RDiv(x, y) == Rat(x[1] * y[2], x[2] * y[1])
RLeq(x, y) == x[1] * y[2] <= y[1] * x[2]

\* int(round(x, 0)): Python 2 rounds to the nearest integer, halves away from
\* zero
Round(x) ==
    IF x[1] >= 0 THEN (2 * x[1] + x[2]) \div (2 * x[2])
    ELSE -((2 * (-x[1]) + x[2]) \div (2 * x[2]))

(***************************************************************************)
(* Strings                                                                 *)
(***************************************************************************)
RECURSIVE Str(_)
\* str(n) of a non-negative integer: its decimal digits
Str(n) == IF n < 10 THEN <<n>> ELSE Append(Str(n \div 10), n % 10)

RECURSIVE Join(_, _)
\* sep.join(msgs): the messages with sep between neighbours (joined half by
\* half, so that the depth of the recursion stays logarithmic)
Join(sep, msgs) ==
    IF Len(msgs) = 0 THEN <<>>
    ELSE IF Len(msgs) = 1 THEN msgs[1]
    ELSE LET m == Len(msgs) \div 2
         IN Join(sep, SubSeq(msgs, 1, m)) \o sep
                \o Join(sep, SubSeq(msgs, m + 1, Len(msgs)))

COMMA == <<",">>

\* bool(s) of a string
Truthy(s) == s # <<>>

(***************************************************************************)
(* Sequence generator and identifiers                                      *)
(***************************************************************************)
\* SequenceGenerator.get_next(key): the value returned; the counter of key
\* becomes that value.
get_next(sg, key) == sg[key] + 1

IdBase == 10000

\* BaseStrategy._get_next_num(key), given the value n drawn from the generator
get_next_num(date, n) == Str(date * IdBase + n)

(***************************************************************************)
(* Task registry                                                           *)
(***************************************************************************)
\* self.task_map[task_id].append(entrust_no) on a defaultdict(list)
Record(tm, task_id, entrust_no) ==
    IF task_id \in DOMAIN tm
    THEN [tm EXCEPT ![task_id] = Append(@, entrust_no)]
    ELSE tm @@ (task_id :> <<entrust_no>>)

\* Length of the registry list of task_id, -1 when task_id is not a key.
\* Noted in each gateway call so that the state of the registry at the moment
\* of the call can be read back (the lists are append-only).
TaskLen(tm, task_id) == IF task_id \in DOMAIN tm THEN Len(tm[task_id]) ELSE -1

\* Order.new_order(security, action, price, size, date, 0): the fields used here
new_order(security, action, size) ==
    [security |-> security, action |-> action, size |-> size,
     task_id |-> <<>>, entrust_no |-> <<>>]

(***************************************************************************)
(* Universe                                                                *)
(***************************************************************************)
RECURSIVE Split(_)
\* univ.split(','): univ is a sequence of tokens, each a name or a comma
Split(univ) ==
    IF Len(univ) = 0 THEN <<"">>
    ELSE LET head == SubSeq(univ, 1, Len(univ) - 1)
             last == univ[Len(univ)]
             done == Split(head)
         IN IF last = "," THEN Append(done, "")
            ELSE [done EXCEPT ![Len(done)] = last]

UnivInputs == {<<"A">>, <<"A", ",", "B">>}

\* StrategyContext.add_universe(univ)
add_universe(univ) ==
    /\ Len(universe) + Len(Split(univ)) <= MaxUniv
    /\ universe' = universe \o Split(univ)
    /\ gw_calls' = <<>>
    /\ ret' = [op |-> "add_universe", args |-> <<univ>>, raised |-> "",
               value |-> <<>>]
    /\ UNCHANGED <<trade_date, seq_gen, task_map, pm_orders, position, alpha,
                   placing>>

(***************************************************************************)
(* Ledger (PortfolioManager)                                               *)
(***************************************************************************)
\* pm.holding_securities
holding_securities == DOMAIN position

\* pm.get_position(sec, date).curr_size
curr_size_of(sec) == position[sec]

\* pm.on_trade_ind(ind): a fill moves the position of its security
apply_trade(pos, ind) ==
    LET old == IF ind.security \in DOMAIN pos THEN pos[ind.security] ELSE 0
        new == IF ind.action = BUY THEN old + ind.fill_size
               ELSE old - ind.fill_size
    IN IF ind.security \in DOMAIN pos
       THEN [pos EXCEPT ![ind.security] = new]
       ELSE pos @@ (ind.security :> new)

\* BaseStrategy.on_trade_ind(ind)
on_trade_ind(ind) ==
    /\ apply_trade(position, ind)[ind.security] \in Sizes
    /\ position' = apply_trade(position, ind)
    /\ gw_calls' = <<>>
    /\ ret' = [op |-> "on_trade_ind", args |-> <<ind>>, raised |-> "",
               value |-> <<>>]
    /\ UNCHANGED <<trade_date, seq_gen, task_map, pm_orders, universe, alpha,
                   placing>>

\* pm.on_order_status(ind): a status report moves no position
apply_status(pos, ind) == pos

\* BaseStrategy.on_order_status(ind)
on_order_status(ind) ==
    /\ position' = apply_status(position, ind)
    /\ gw_calls' = <<>>
    /\ ret' = [op |-> "on_order_status", args |-> <<ind>>, raised |-> "",
               value |-> <<>>]
    /\ UNCHANGED <<trade_date, seq_gen, task_map, pm_orders, universe, alpha,
                   placing>>

\* BaseStrategy.register_callback(): the handler the gateway holds for each
\* kind of event once initialize() has run
register_callback ==
    [on_trade_ind |-> "on_trade_ind", on_order_status |-> "on_trade_ind"]

\* the gateway emits an event of the kind event: it calls the handler
\* registered for that kind
emit(event, ind) ==
    IF register_callback[event] = "on_trade_ind" THEN on_trade_ind(ind)
    ELSE on_order_status(ind)

\* BaseStrategy.on_new_day(trade_date)
on_new_day(date) ==
    /\ trade_date' = date
    /\ gw_calls' = <<>>
    /\ ret' = [op |-> "on_new_day", args |-> <<date>>, raised |-> "",
               value |-> <<>>]
    /\ UNCHANGED <<seq_gen, task_map, pm_orders, position, universe, alpha,
                   placing>>

(***************************************************************************)
(* Order submission                                                        *)
(***************************************************************************)
\* BaseStrategy.place_order(security, action, price, size, algo); err is the
\* gateway's answer to place_order
place_order(security, action, size, algo, err) ==
    IF Truthy(algo)
    THEN /\ gw_calls' = <<>>
         /\ ret' = [op |-> "place_order", args |-> <<security, action, size, algo>>,
                    raised |-> "NotImplementedError", value |-> <<>>]
         /\ UNCHANGED <<trade_date, seq_gen, task_map, pm_orders, position,
                        universe, alpha, placing>>
    ELSE LET tn == get_next(seq_gen, "task_id")
             en == get_next(seq_gen, "entrust_no")
             order == [new_order(security, action, size) EXCEPT
                          !.task_id = get_next_num(trade_date, tn),
                          !.entrust_no = get_next_num(trade_date, en)]
             tm == Record(task_map, order.task_id, order.entrust_no)
         IN /\ seq_gen' = [seq_gen EXCEPT !["task_id"] = tn, !["entrust_no"] = en]
            /\ task_map' = tm
            /\ pm_orders' = Append(pm_orders, order.entrust_no)
            /\ gw_calls' = << [call |-> "place_order", order |-> order, err |-> err,
                               task_len |-> TaskLen(tm, order.task_id)] >>
            /\ ret' = [op |-> "place_order",
                       args |-> <<security, action, size, algo>>,
                       raised |-> "",
                       value |-> IF Truthy(err) THEN <<Str(0), err>>
                                 ELSE <<order.task_id, err>>]
            /\ UNCHANGED <<trade_date, position, universe, alpha, placing>>

\* place_order up to pm.add_order (lines 136-143), run by a thread of its
\* own: the order is minted and recorded, and not yet handed to the gateway
place_order_record(security, action, size) ==
    LET tn == get_next(seq_gen, "task_id")
        en == get_next(seq_gen, "entrust_no")
        order == [new_order(security, action, size) EXCEPT
                     !.task_id = get_next_num(trade_date, tn),
                     !.entrust_no = get_next_num(trade_date, en)]
    IN /\ placing = None
       /\ seq_gen' = [seq_gen EXCEPT !["task_id"] = tn, !["entrust_no"] = en]
       /\ task_map' = Record(task_map, order.task_id, order.entrust_no)
       /\ pm_orders' = Append(pm_orders, order.entrust_no)
       /\ placing' = Some(order)
       /\ UNCHANGED <<trade_date, position, universe, alpha, gw_calls, ret>>

\* the rest of place_order (lines 145-150) in that thread: the gateway call
\* and the return
place_order_submit(err) ==
    /\ placing # None
    /\ LET order == Val(placing)
       IN /\ gw_calls' = << [call |-> "place_order", order |-> order,
                             err |-> err,
                             task_len |-> TaskLen(task_map, order.task_id)] >>
          /\ ret' = [op |-> "place_order",
                     args |-> <<order.security, order.action, order.size, <<>>>>,
                     raised |-> "",
                     value |-> IF Truthy(err) THEN <<Str(0), err>>
                               ELSE <<order.task_id, err>>]
    /\ placing' = None
    /\ UNCHANGED <<trade_date, seq_gen, task_map, pm_orders, position, universe,
                   alpha>>

\* a pass of the loop that records the order only when the gateway took it
batch_body_unrecord(st, task_id, order, err) ==
    LET en == get_next(st.seq_gen, "entrust_no")
        o == [order EXCEPT !.task_id = task_id,
                           !.entrust_no = get_next_num(trade_date, en)]
    IN [seq_gen |-> [st.seq_gen EXCEPT !["entrust_no"] = en],
        pm_orders |-> Append(st.pm_orders, o.entrust_no),
        gw_calls |-> Append(st.gw_calls,
                            [call |-> "place_order", order |-> o, err |-> err,
                             task_len |-> TaskLen(st.task_map, o.task_id)]),
        err_msgs |-> Append(st.err_msgs, err),
        task_map |-> IF Truthy(err) THEN st.task_map
                     ELSE Record(st.task_map, o.task_id, o.entrust_no)]

\* One pass of the loop of place_batch_order over st, the strategy's state as
\* the loop sees it; err is the gateway's answer for this order.
batch_body(st, task_id, order, err) ==
    LET en == get_next(st.seq_gen, "entrust_no")
        o == [order EXCEPT !.task_id = task_id,
                           !.entrust_no = get_next_num(trade_date, en)]
    IN [seq_gen |-> [st.seq_gen EXCEPT !["entrust_no"] = en],
        pm_orders |-> Append(st.pm_orders, o.entrust_no),
        gw_calls |-> Append(st.gw_calls,
                            [call |-> "place_order", order |-> o, err |-> err,
                             task_len |-> TaskLen(st.task_map, o.task_id)]),
        err_msgs |-> Append(st.err_msgs, err),
        task_map |-> Record(st.task_map, o.task_id, o.entrust_no)]

RECURSIVE batch_loop(_, _, _, _, _, _)
\* The passes i .. j of the loop, in order: the passes i .. m, then the
\* passes m + 1 .. j on the state they leave. The range is split in two so
\* that the depth of the recursion stays logarithmic in the length of the
\* batch; the test on first makes TLC compute the first half before it enters
\* the second (it is always true).
batch_loop(st, task_id, orders, errs, i, j) ==
    IF i > j THEN st
    ELSE IF i = j THEN batch_body(st, task_id, orders[i], errs[i])
    ELSE LET m == (i + j) \div 2
             first == batch_loop(st, task_id, orders, errs, i, m)
         IN IF Len(first.gw_calls) >= 0
            THEN batch_loop(first, task_id, orders, errs, m + 1, j)
            ELSE first

\* BaseStrategy.place_batch_order(orders): the state it leaves and the value
\* it returns; errs[i] is the gateway's answer for orders[i]
place_batch_order(orders, errs) ==
    LET tn == get_next(seq_gen, "task_id")
        task_id == get_next_num(trade_date, tn)
        st0 == [seq_gen |-> [seq_gen EXCEPT !["task_id"] = tn],
                pm_orders |-> pm_orders, gw_calls |-> <<>>, err_msgs |-> <<>>,
                task_map |-> task_map]
        st == batch_loop(st0, task_id, orders, errs, 1, Len(orders))
    IN [seq_gen |-> st.seq_gen, pm_orders |-> st.pm_orders,
        gw_calls |-> st.gw_calls, task_map |-> st.task_map,
        value |-> <<task_id, Join(COMMA, st.err_msgs)>>]

\* A call of place_batch_order(orders, algo) from outside; the body never
\* reads algo
PlaceBatch(orders, algo, errs) ==
    \E r \in {place_batch_order(orders, errs)} :
       /\ seq_gen' = r.seq_gen
       /\ task_map' = r.task_map
       /\ pm_orders' = r.pm_orders
       /\ gw_calls' = r.gw_calls
       /\ ret' = [op |-> "place_batch_order", args |-> <<orders, algo>>,
                  raised |-> "", value |-> r.value]
       /\ UNCHANGED <<trade_date, position, universe, alpha, placing>>

\* the loop of cancel_order that stops at the first child whose cancel fails
cancel_calls_abort(entrust_no_list, errs) ==
    LET n == Len(entrust_no_list)
        stop == IF \E i \in 1 .. n : Truthy(errs[i])
                THEN CHOOSE i \in 1 .. n :
                         /\ Truthy(errs[i])
                         /\ \A k \in 1 .. i - 1 : ~Truthy(errs[k])
                ELSE n
    IN [i \in 1 .. stop |->
            [call |-> "cancel_order", entrust_no |-> entrust_no_list[i],
             err |-> errs[i]]]

\* The loop of cancel_order: the gateway calls it makes, in order; errs[i] is
\* the gateway's answer to the i-th call
cancel_calls(entrust_no_list, errs) ==
    [i \in 1 .. Len(entrust_no_list) |->
        [call |-> "cancel_order", entrust_no |-> entrust_no_list[i],
         err |-> errs[i]]]

\* cancel_order reporting success as soon as one child was cancelled
cancel_value_any(err_msgs) ==
    IF \A i \in 1 .. Len(err_msgs) : Truthy(err_msgs[i])
    THEN <<FALSE, Join(COMMA, err_msgs)>>
    ELSE <<TRUE, <<>>>>

\* What cancel_order returns from the answers err_msgs of its gateway calls
cancel_value(err_msgs) ==
    IF \E i \in 1 .. Len(err_msgs) : Truthy(err_msgs[i])
    THEN <<FALSE, Join(COMMA, err_msgs)>>
    ELSE <<TRUE, <<>>>>

\* BaseStrategy.cancel_order(task_id)
cancel_order(task_id, errs) ==
    /\ IF task_id \notin DOMAIN task_map
       THEN /\ gw_calls' = <<>>
            /\ ret' = [op |-> "cancel_order", args |-> <<task_id>>, raised |-> "",
                       value |-> <<FALSE, <<"No task id ">> \o task_id>>]
       ELSE LET calls == cancel_calls(task_map[task_id], errs)
            IN /\ gw_calls' = calls
               /\ ret' = [op |-> "cancel_order", args |-> <<task_id>>,
                          raised |-> "",
                          value |-> cancel_value([i \in 1 .. Len(calls) |->
                                                      calls[i].err])]
    /\ UNCHANGED <<trade_date, seq_gen, task_map, pm_orders, position, universe,
                   alpha, placing>>

(***************************************************************************)
(* Diff of goal positions against the ledger                               *)
(***************************************************************************)
\* the order for one goal with the signed difference as its size
goal_orders_of_signed(goal) ==
    LET curr_size == IF goal.security \in holding_securities
                     THEN curr_size_of(goal.security) ELSE 0
        diff_size == goal.size - curr_size
    IN IF diff_size # 0
       THEN << new_order(goal.security,
                         IF diff_size > 0 THEN BUY ELSE SELL, diff_size) >>
       ELSE <<>>

\* FixedPriceTypeOrder.new_order for one goal, or no order when the goal is met
goal_orders_of(goal) ==
    LET curr_size == IF goal.security \in holding_securities
                     THEN curr_size_of(goal.security) ELSE 0
        diff_size == goal.size - curr_size
    IN IF diff_size # 0
       THEN << new_order(goal.security,
                         IF diff_size > 0 THEN BUY ELSE SELL,
                         IF diff_size < 0 THEN -diff_size ELSE diff_size) >>
       ELSE <<>>

RECURSIVE goal_orders(_)
\* the order list goal_portfolio builds from goals
goal_orders(goals) ==
    IF Len(goals) = 0 THEN <<>>
    ELSE goal_orders(SubSeq(goals, 1, Len(goals) - 1))
             \o goal_orders_of(goals[Len(goals)])

\* BaseStrategy.goal_portfolio(goals); errs are the gateway's answers
goal_portfolio(goals, errs) ==
    IF Len(goals) # Len(universe)
    THEN /\ gw_calls' = <<>>
         /\ ret' = [op |-> "goal_portfolio", args |-> <<Len(goals)>>,
                    raised |-> "AssertionError", value |-> <<>>]
         /\ UNCHANGED <<trade_date, seq_gen, task_map, pm_orders, position,
                        universe, alpha, placing>>
    ELSE \E r \in {place_batch_order(goal_orders(goals), errs)} :
            /\ seq_gen' = r.seq_gen
            /\ task_map' = r.task_map
            /\ pm_orders' = r.pm_orders
            /\ gw_calls' = r.gw_calls
            /\ ret' = [op |-> "goal_portfolio", args |-> <<goals>>, raised |-> "",
                       value |-> <<>>]
            /\ UNCHANGED <<trade_date, position, universe, alpha, placing>>

(***************************************************************************)
(* AlphaStrategy: configuration and portfolio construction                 *)
(***************************************************************************)
\* the keyword parameters of the two built-in construction methods
\* (equal_weight spells its second parameter constrains)
params_of(func) ==
    IF func = "equal_weight" THEN {"util_func", "constrains", "initial_value"}
    ELSE {"util_func", "constraints", "initial_value"}

\* options of the 'mc' entry: the keywords of the dict given at registration
McOptions == {"util_func", "constraints", "initial_value"}

\* AlphaStrategy.register_pc_method(name, func, options): the new table
register_pc_method(table, name, func, options) ==
    [n \in DOMAIN table \cup {name} |->
        IF n = name THEN [func |-> func, options |-> options] ELSE table[n]]

\* AlphaStrategy.init_from_config(props)
init_from_config(props) ==
    /\ universe' = universe \o Split(props.universe)
    /\ cash' = props.init_balance
    /\ position_ratio' = props.position_ratio
    /\ pc_methods' = register_pc_method(
                         register_pc_method(pc_methods, "equal_weight",
                                            "equal_weight", None),
                         "mc", "optimize_mc", Some(McOptions))
    /\ gw_calls' = <<>>
    /\ ret' = [op |-> "init_from_config", args |-> <<>>, raised |-> "",
               value |-> <<>>]
    /\ UNCHANGED <<trade_date, seq_gen, task_map, pm_orders, position, weights,
                   goal_positions, active_pc_method, n_cycles, placing>>

\* strategy.active_pc_method = name, set by the owner of the strategy
activate(name) ==
    /\ active_pc_method' = name
    /\ gw_calls' = <<>>
    /\ ret' = [op |-> "activate", args |-> <<name>>, raised |-> "",
               value |-> <<>>]
    /\ UNCHANGED <<trade_date, seq_gen, task_map, pm_orders, position, universe,
                   cash, position_ratio, weights, goal_positions, pc_methods,
                   n_cycles, placing>>

RECURSIVE SumSeq(_)
SumSeq(row) == IF Len(row) = 0 THEN 0
               ELSE SumSeq(SubSeq(row, 1, Len(row) - 1)) + row[Len(row)]

\* dict(zip(univ, row)) and {univ[j]: row[j] for j in range(n_var)}: the
\* value of a security named twice is the one given last
dict_of(univ, row) ==
    [sec \in {univ[j] : j \in 1 .. Len(univ)} |->
        row[CHOOSE j \in 1 .. Len(univ) :
                /\ univ[j] = sec
                /\ \A k \in j + 1 .. Len(univ) : univ[k] # sec]]

\* AlphaStrategy.equal_weight: the weights it sets
equal_weight ==
    dict_of(universe, [j \in 1 .. Len(universe) |-> Rat(1, Len(universe))])

NExp == 5
\* min_f = 1e30: the utilities of the model are integers up to MinF, which
\* stands for 1e30
MinF == 1000000

\* a row of weights_mat after weights_mat / weights_mat.sum(axis=1)
normalized(row) == [j \in 1 .. Len(row) |-> Rat(row[j], SumSeq(row))]

RECURSIVE mc_loop_last(_, _, _, _)
\* the loop with <= for <: a later candidate of the same utility wins
mc_loop_last(best, mat, f, i) ==
    IF i > NExp THEN best
    ELSE mc_loop_last(IF f[i] <= best.min_f
                      THEN [min_f |-> f[i],
                            min_weights |->
                                Some(dict_of(universe, normalized(mat[i])))]
                      ELSE best,
                      mat, f, i + 1)

RECURSIVE mc_loop(_, _, _, _)
\* the loop of optimize_mc from experiment i on; best is (min_f, min_weights)
mc_loop(best, mat, f, i) ==
    IF i > NExp THEN best
    ELSE mc_loop(IF f[i] < best.min_f
                 THEN [min_f |-> f[i],
                       min_weights |->
                           Some(dict_of(universe, normalized(mat[i])))]
                 ELSE best,
                 mat, f, i + 1)

\* AlphaStrategy.optimize_mc: the weights it sets; mat is the matrix drawn by
\* np.random.rand and f[i] the value of util_func on the i-th candidate
optimize_mc(mat, f) ==
    mc_loop([min_f |-> MinF, min_weights |-> None], mat, f, 1).min_weights

\* AlphaStrategy.portfolio_construction: what it raises and the weights after
portfolio_construction(mat, f) ==
    IF active_pc_method \notin DOMAIN pc_methods
    THEN [raised |-> "KeyError", weights |-> weights]
    ELSE LET func == pc_methods[active_pc_method].func
             options == pc_methods[active_pc_method].options
         IN IF options = None
            THEN [raised |-> "TypeError", weights |-> weights]
            ELSE IF ~(Val(options) \subseteq params_of(func))
                    \/ "util_func" \notin Val(options)
            THEN [raised |-> "TypeError", weights |-> weights]
            ELSE IF func = "equal_weight"
            THEN [raised |-> "", weights |-> Some(equal_weight)]
            ELSE [raised |-> "", weights |-> optimize_mc(mat, f)]

(***************************************************************************)
(* AlphaStrategy: the rebalance cycle                                      *)
(***************************************************************************)
AllSuspended == "ValueError: All suspended"

\* AlphaStrategy.re_weight_suspension(suspensions): what it raises ("" when it
\* returns). Indexing the weights dict (or None) with the mask array raises
\* before anything is written.
re_weight_suspension(suspensions) ==
    IF suspensions = None THEN ""
    ELSE IF Len(Val(suspensions)) = Len(universe) THEN AllSuspended
    ELSE "TypeError"

\* securities of univ in the order of their first appearance
RECURSIVE keys_in_order(_)
keys_in_order(univ) ==
    IF Len(univ) = 0 THEN <<>>
    ELSE LET head == keys_in_order(SubSeq(univ, 1, Len(univ) - 1))
             last == univ[Len(univ)]
         IN IF \E k \in 1 .. Len(head) : head[k] = last THEN head
            ELSE Append(head, last)

\* pm.market_value(trade_date, prices, suspensions): the holdings at prices
RECURSIVE market_value(_, _)
market_value(secs, prices) ==
    IF secs = {} THEN 0
    ELSE LET sec == CHOOSE x \in secs : TRUE
         IN position[sec] * prices[sec] + market_value(secs \ {sec}, prices)

\* One pass of the loop of generate_weights_order: acc is (goals, cash_left)
weights_order_body(acc, sec, w, turnover, prices) ==
    IF w[1] = 0
    THEN [goals |-> Append(acc.goals, [security |-> sec, size |-> 0]),
          cash_left |-> acc.cash_left]
    ELSE LET price == Int2Rat(prices[sec])
             shares_raw == RDiv(RMul(w, turnover), price)
             shares == Round(RDiv(shares_raw, Int2Rat(LotShares)))
             shares_left == RSub(shares_raw, Int2Rat(shares * LotShares))
         IN [goals |-> Append(acc.goals, [security |-> sec, size |-> shares]),
             cash_left |-> RAdd(acc.cash_left, RMul(shares_left, price))]

RECURSIVE weights_order_loop(_, _, _, _, _)
\* the loop over weights_dic.items(), items being the keys still to visit
weights_order_loop(acc, items, weights_dic, turnover, prices) ==
    IF Len(items) = 0 THEN acc
    ELSE weights_order_loop(
             weights_order_body(acc, items[1], weights_dic[items[1]], turnover,
                                prices),
             Tail(items), weights_dic, turnover, prices)

\* AlphaStrategy.generate_weights_order(weights_dic, turnover, prices, 'close'):
\* (goals, cash_left). The securities are visited in the order in which the
\* universe names them.
generate_weights_order(weights_dic, turnover, prices) ==
    weights_order_loop([goals |-> <<>>, cash_left |-> <<0, 1>>],
                       keys_in_order(universe), weights_dic, turnover, prices)

\* what a cycle that raised leaves behind: nothing but the weights it had set
cycle_aborts(raised, w, args) ==
    /\ weights' = w
    /\ ret' = [op |-> "re_balance_plan", args |-> args, raised |-> raised,
               value |-> <<>>]
    /\ UNCHANGED <<cash, goal_positions>>

\* AlphaStrategy.re_balance_plan(). pc is what self.portfolio_construction()
\* did, suspensions what data_api.get_suspensions() returns, prices the close
\* of each universe security whose frame has a row (reading the close of an
\* empty frame raises).
re_balance_plan(pc, suspensions, prices) ==
    LET sus == re_weight_suspension(suspensions)
    IN /\ n_cycles' = n_cycles + 1
       /\ gw_calls' = <<>>
       /\ UNCHANGED <<trade_date, seq_gen, task_map, pm_orders, position,
                      universe, position_ratio, pc_methods, active_pc_method,
                      placing>>
       /\ IF pc.raised # "" THEN cycle_aborts(pc.raised, weights, <<>>)
          ELSE IF sus # "" THEN cycle_aborts(sus, pc.weights, <<suspensions>>)
          ELSE IF \E j \in 1 .. Len(universe) : universe[j] \notin DOMAIN prices
          THEN cycle_aborts("MissingPrice", pc.weights, <<suspensions, prices>>)
          ELSE IF pc.weights = None
          THEN cycle_aborts("AttributeError", pc.weights,
                            <<suspensions, prices>>)
          ELSE LET mv == market_value(DOMAIN position \cap DOMAIN prices, prices)
                   cash_available == RAdd(cash, Int2Rat(mv))
                   cash_use == RMul(cash_available, position_ratio)
                   cash_unuse == RSub(cash_available, cash_use)
                   res == generate_weights_order(Val(pc.weights), cash_use,
                                                 prices)
               IN /\ weights' = pc.weights
                  /\ goal_positions' = Some(res.goals)
                  /\ cash' = RAdd(res.cash_left, cash_unuse)
                  /\ ret' = [op |-> "re_balance_plan",
                             args |-> <<suspensions, prices>>,
                             raised |-> "",
                             value |-> [cash_available |-> cash_available,
                                        cash_use |-> cash_use,
                                        cash_unuse |-> cash_unuse,
                                        cash_remain |-> res.cash_left]]

\* a direct call of AlphaStrategy.re_weight_suspension(suspensions)
ReWeight(suspensions) ==
    /\ gw_calls' = <<>>
    /\ ret' = [op |-> "re_weight_suspension", args |-> <<suspensions>>,
               raised |-> re_weight_suspension(suspensions), value |-> <<>>]
    /\ UNCHANGED <<trade_date, seq_gen, task_map, pm_orders, position, universe,
                   alpha, placing>>

\* AlphaStrategy.send_bullets(): the diff of the stored goals against the
\* ledger and the emission of its orders; len(None) raises when no cycle has
\* stored goals
send_bullets(errs) ==
    IF goal_positions = None
    THEN /\ gw_calls' = <<>>
         /\ ret' = [op |-> "goal_portfolio", args |-> <<>>,
                    raised |-> "TypeError", value |-> <<>>]
         /\ UNCHANGED <<trade_date, seq_gen, task_map, pm_orders, position,
                        universe, alpha, placing>>
    ELSE goal_portfolio(Val(goal_positions), errs)

(***************************************************************************)
(* Specification of the order handling                                     *)
(***************************************************************************)
\* BaseStrategy.__init__ and AlphaStrategy.__init__
Init ==
    /\ trade_date = 0
    /\ seq_gen = [k \in Keys |-> 0]
    /\ task_map = <<>>
    /\ pm_orders = <<>>
    /\ position = <<>>
    /\ universe = <<>>
    /\ cash = <<0, 1>>
    /\ position_ratio = <<0, 1>>
    /\ weights = None
    /\ goal_positions = None
    /\ pc_methods = <<>>
    /\ active_pc_method = ""
    /\ n_cycles = 0
    /\ placing = None
    /\ gw_calls = <<>>
    /\ ret = [op |-> "init", args |-> <<>>, raised |-> "", value |-> <<>>]

OrderInputs == {new_order("A", BUY, LotShares), new_order("B", SELL, LotShares)}
BatchInputs == UNION {[1 .. n -> OrderInputs] : n \in 0 .. MaxBatch}
TradeInds == [security : Secs, action : {BUY, SELL}, fill_size : {LotShares}]
\* the ids a caller may hand to cancel_order: every id that can have been minted
TaskIds == {get_next_num(d, n) : d \in Dates \cup {0}, n \in 1 .. MaxSeq}
\* the goal lists a caller may hand to goal_portfolio: one goal per universe
\* entry, and lists of another length
GoalInputs ==
    {g \in [1 .. Len(universe) -> [security : Secs, size : Sizes]] :
        \A i \in 1 .. Len(universe) : g[i].security = universe[i]}
    \cup UNION {[1 .. n -> [security : {"A"}, size : {0}]] :
                    n \in (0 .. MaxUniv) \ {Len(universe)}}

AddUniverse == \E univ \in UnivInputs : add_universe(univ)
OnNewDay == \E date \in Dates : on_new_day(date)
OnTradeInd == \E ind \in TradeInds : on_trade_ind(ind)
\* the model stops minting when a counter of seq_gen has reached MaxSeq
SeqBound == \A k \in Keys : seq_gen[k] <= MaxSeq
PlaceOrder ==
    \E order \in OrderInputs, algo \in Algos, err \in GwErrs :
        /\ place_order(order.security, order.action, order.size, algo, err)
        /\ SeqBound'
PlaceBatchOrder ==
    \E orders \in BatchInputs, algo \in Algos :
        \E errs \in [1 .. Len(orders) -> GwErrs] :
            /\ PlaceBatch(orders, algo, errs)
            /\ SeqBound'
CancelOrder ==
    \E task_id \in TaskIds :
        \E errs \in [1 .. TaskLen(task_map, task_id) -> GwErrs] :
            cancel_order(task_id, errs)
\* (the gateway gives one answer to all the orders of a diff)
GoalPortfolio ==
    \E goals \in GoalInputs, err \in GwErrs :
        /\ goal_portfolio(goals, [i \in 1 .. Len(goal_orders(goals)) |-> err])
        /\ SeqBound'

Next ==
    \/ OnNewDay
    \/ PlaceOrder
    \/ PlaceBatchOrder
    \/ CancelOrder

Spec == Init /\ [][Next]_vars

(***************************************************************************)
(* Specification of place_order and cancel_order in two threads: the       *)
(* statements of place_order interleave with whole calls of cancel_order   *)
(***************************************************************************)
PlaceOrderRecord ==
    \E order \in OrderInputs :
        /\ place_order_record(order.security, order.action, order.size)
        /\ SeqBound'
PlaceOrderSubmit == \E err \in GwErrs : place_order_submit(err)

NextInterleave ==
    \/ OnNewDay
    \/ PlaceOrderRecord
    \/ PlaceOrderSubmit
    \/ CancelOrder

SpecInterleave == Init /\ [][NextInterleave]_vars

(***************************************************************************)
(* Specification of the events of the gateway, after initialize()          *)
(***************************************************************************)
OrderStatusInds ==
    [security : Secs, action : {BUY, SELL}, fill_size : {LotShares},
     order_status : {"Filled", "Cancelled"}]

TradeEvent == \E ind \in TradeInds : emit("on_trade_ind", ind)
OrderStatusEvent == \E ind \in OrderStatusInds : emit("on_order_status", ind)
\* a direct call of BaseStrategy.on_order_status(ind)
OnOrderStatus == \E ind \in OrderStatusInds : on_order_status(ind)

NextEvents ==
    \/ TradeEvent
    \/ OrderStatusEvent
    \/ OnOrderStatus

SpecEvents == Init /\ [][NextEvents]_vars

(***************************************************************************)
(* Specification of the diff of goal positions against the ledger          *)
(***************************************************************************)
NextDiff ==
    \/ AddUniverse
    \/ OnTradeInd
    \/ GoalPortfolio

SpecDiff == Init /\ [][NextDiff]_vars

(***************************************************************************)
(* Specification of the identifiers: the same operations, with batches     *)
(* long enough for the entrust_no counter to pass IdBase                   *)
(***************************************************************************)
MaxTasks == 3      \* under SpecIds the task_id counter stays <= MaxTasks
BigBatch == IdBase - 1

IdBound ==
    /\ seq_gen["task_id"] <= MaxTasks
    /\ seq_gen["entrust_no"] <= IdBase + 1

PlaceOrderIds ==
    \E err \in GwErrs :
        /\ place_order("A", BUY, LotShares, <<>>, err)
        /\ IdBound'
PlaceBigBatch ==
    /\ seq_gen["task_id"] < MaxTasks
    /\ seq_gen["entrust_no"] + BigBatch <= IdBase + 1
    /\ PlaceBatch([i \in 1 .. BigBatch |-> new_order("A", BUY, LotShares)],
                  <<>>, [i \in 1 .. BigBatch |-> <<>>])
NextIds ==
    \/ OnNewDay
    \/ PlaceOrderIds
    \/ PlaceBigBatch

SpecIds == Init /\ [][NextIds]_vars

(***************************************************************************)
(* Specification of the rebalance cycle                                    *)
(***************************************************************************)
MaxCycles == 2     \* re_balance_plan is called at most MaxCycles times

Balances == {<<1500, 1>>}
Ratios == {<<1, 1>>, <<1, 2>>}
Prices == {5, 10}
MethodNames == {"equal_weight", "mc", "momentum"}
SuspInputs ==
    {None} \cup {Some(l) : l \in {<<>>, <<"A">>, <<"A", "A">>, <<"A", "B">>}}
RandVals == {0, 1}
Utils == {1, 2, MinF}
\* the rows of np.random.rand considered for n securities: all on one
\* security, and the same on every security
McRows(n) == {row \in [1 .. n -> RandVals] : n = 0 \/ SumSeq(row) \in {1, n}}
\* the draws and the utilities considered: the first two experiments vary,
\* the later ones repeat the second
McMats(n) == {mat \in [1 .. NExp -> McRows(n)] :
                 \A i \in 3 .. NExp : mat[i] = mat[2]}
McUtils == {f \in [1 .. NExp -> Utils] : \A i \in 3 .. NExp : f[i] = f[2]}

InitFromConfig ==
    /\ pc_methods = <<>>
    /\ \E univ \in UnivInputs, init_balance \in Balances, ratio \in Ratios :
           /\ Len(universe) + Len(Split(univ)) <= MaxUniv
           /\ init_from_config([universe |-> univ, init_balance |-> init_balance,
                                position_ratio |-> ratio])
Activate ==
    \E name \in MethodNames : active_pc_method # name /\ activate(name)
ReBalancePlan ==
    /\ n_cycles < MaxCycles
    /\ \E pc \in {portfolio_construction(mat, f) :
                     mat \in McMats(Len(universe)), f \in McUtils} :
           \E suspensions \in SuspInputs :
               \E priced \in SUBSET {universe[j] : j \in 1 .. Len(universe)} :
                   \E prices \in [priced -> Prices] :
                       re_balance_plan(pc, suspensions, prices)
ReWeightSuspension == \E suspensions \in SuspInputs : ReWeight(suspensions)
\* (the gateway gives one answer to all the orders of a diff)
SendBullets ==
    \E err \in GwErrs :
        /\ send_bullets([i \in 1 .. MaxUniv |-> err])
        /\ SeqBound'
\* the fills of this specification are those of the first security
OnFill == \E ind \in {i \in TradeInds : i.security = "A"} : on_trade_ind(ind)

NextRebalance ==
    \/ InitFromConfig
    \/ Activate
    \/ OnFill
    \/ ReBalancePlan
    \/ ReWeightSuspension

SpecRebalance == Init /\ [][NextRebalance]_vars

(***************************************************************************)
(* Specification of the cycle followed by the emission of its orders       *)
(***************************************************************************)
NextBullets ==
    \/ InitFromConfig
    \/ Activate
    \/ ReBalancePlan
    \/ SendBullets

SpecBullets == Init /\ [][NextBullets]_vars

(***************************************************************************)
(* Specification of the cycle over a universe built by add_universe        *)
(***************************************************************************)
NextUniverse ==
    \/ AddUniverse
    \/ InitFromConfig
    \/ Activate
    \/ ReBalancePlan
    \/ SendBullets

SpecUniverse == Init /\ [][NextUniverse]_vars

(***************************************************************************)
(* Specification of the portfolio construction                             *)
(***************************************************************************)
\* a direct call of AlphaStrategy.equal_weight(util_func)
EqualWeight ==
    /\ weights' = Some(equal_weight)
    /\ gw_calls' = <<>>
    /\ ret' = [op |-> "equal_weight", args |-> <<>>, raised |-> "",
               value |-> <<>>]
    /\ UNCHANGED <<trade_date, seq_gen, task_map, pm_orders, position, universe,
                   cash, position_ratio, goal_positions, pc_methods,
                   active_pc_method, n_cycles, placing>>

\* a direct call of AlphaStrategy.optimize_mc(util_func)
OptimizeMc ==
    \E mat \in McMats(Len(universe)), f \in McUtils :
        /\ weights' = optimize_mc(mat, f)
        /\ gw_calls' = <<>>
        /\ ret' = [op |-> "optimize_mc", args |-> <<mat, f>>, raised |-> "",
                   value |-> <<>>]
        /\ UNCHANGED <<trade_date, seq_gen, task_map, pm_orders, position,
                       universe, cash, position_ratio, goal_positions,
                       pc_methods, active_pc_method, n_cycles, placing>>

\* a direct call of AlphaStrategy.portfolio_construction()
PortfolioConstruction ==
    \E pc \in {portfolio_construction(mat, f) :
                  mat \in McMats(Len(universe)), f \in McUtils} :
        /\ weights' = pc.weights
        /\ gw_calls' = <<>>
        /\ ret' = [op |-> "portfolio_construction", args |-> <<>>,
                   raised |-> pc.raised, value |-> <<>>]
        /\ UNCHANGED <<trade_date, seq_gen, task_map, pm_orders, position,
                       universe, cash, position_ratio, goal_positions,
                       pc_methods, active_pc_method, n_cycles, placing>>

\* the registrations the owner of the strategy makes after configuration
Registrations ==
    {[name |-> "mc", func |-> "equal_weight", options |-> Some({"util_func"})],
     [name |-> "momentum", func |-> "optimize_mc", options |-> Some(McOptions)]}

\* a call of AlphaStrategy.register_pc_method(name, func, options)
RegisterPcMethod ==
    \E r \in Registrations :
        /\ pc_methods' = register_pc_method(pc_methods, r.name, r.func,
                                            r.options)
        /\ gw_calls' = <<>>
        /\ ret' = [op |-> "register_pc_method", args |-> <<r>>, raised |-> "",
                   value |-> <<>>]
        /\ UNCHANGED <<trade_date, seq_gen, task_map, pm_orders, position,
                       universe, cash, position_ratio, weights, goal_positions,
                       active_pc_method, n_cycles, placing>>

NextConstruct ==
    \/ AddUniverse
    \/ InitFromConfig
    \/ RegisterPcMethod
    \/ Activate
    \/ EqualWeight
    \/ PortfolioConstruction

SpecConstruct == Init /\ [][NextConstruct]_vars

(***************************************************************************)
(* Specification of the naive optimizer                                    *)
(***************************************************************************)
NextOptimize ==
    \/ AddUniverse
    \/ OptimizeMc

SpecOptimize == Init /\ [][NextOptimize]_vars

(***************************************************************************)
(* Claims on the task registry and order submission (under Spec)           *)
(***************************************************************************)
\* the registry list of task_id, empty when task_id is not a key
EntrustsOf(task_id) ==
    IF task_id \in DOMAIN task_map THEN task_map[task_id] ELSE <<>>

\* C1: cancel_order on a task_id that is a key of the registry makes exactly one
\* gateway cancel_order call per entrust_no recorded under it, in order and
\* whatever the earlier calls answered; on a task_id that is no key it
\* returns failure and calls the gateway not at all.
C1_CancelCallsEveryChild ==
    ret.op = "cancel_order" =>
        LET task_id == ret.args[1]
        IN IF task_id \in DOMAIN task_map
           THEN /\ Len(gw_calls) = Len(task_map[task_id])
                /\ \A i \in 1 .. Len(gw_calls) :
                       /\ gw_calls[i].call = "cancel_order"
                       /\ gw_calls[i].entrust_no = task_map[task_id][i]
           ELSE /\ ret.value[1] = FALSE
                /\ gw_calls = <<>>

\* C1 witness: a task of two orders is cancelled, the first child's cancel
\* fails and the second child is attempted all the same.
C1_Witness ==
    /\ ret.op = "cancel_order"
    /\ ret.args[1] \in DOMAIN task_map
    /\ Len(task_map[ret.args[1]]) = 2
    /\ Len(gw_calls) = 2
    /\ Truthy(gw_calls[1].err)

\* C2: for a recorded task_id, cancel_order returns success exactly when every
\* child cancel_order call answered the empty error.
C2_CancelSuccessIffAllEmpty ==
    (ret.op = "cancel_order" /\ ret.args[1] \in DOMAIN task_map) =>
        (ret.value[1] = TRUE <=>
            \A i \in 1 .. Len(gw_calls) : gw_calls[i].err = <<>>)

\* C2 witness: a partial cancellation (first child cancelled, second not) is
\* reported as failure.
C2_Witness ==
    /\ ret.op = "cancel_order"
    /\ Len(gw_calls) = 2
    /\ gw_calls[1].err = <<>>
    /\ Truthy(gw_calls[2].err)
    /\ ret.value[1] = FALSE

\* C4: at every gateway place_order call the order's task_id is non-empty and
\* the registry already holds that task_id with the order's entrust_no under
\* it.
C4_RecordedBeforeSubmit ==
    \A i \in 1 .. Len(gw_calls) :
        gw_calls[i].call = "place_order" =>
            /\ gw_calls[i].order.task_id # <<>>
            /\ gw_calls[i].task_len >= 1
            /\ \E k \in 1 .. gw_calls[i].task_len :
                   task_map[gw_calls[i].order.task_id][k]
                       = gw_calls[i].order.entrust_no

\* C5: place_batch_order over n orders makes n gateway place_order calls, one
\* per order and in order, all under the task_id it returns; afterwards the
\* registry holds under that task_id exactly the n entrust_nos, in submission
\* order; and the combined error is non-empty when an order was rejected.
C5_BatchForwardsAndRecordsAll ==
    ret.op = "place_batch_order" =>
        LET orders == ret.args[1]
            task_id == ret.value[1]
        IN /\ Len(gw_calls) = Len(orders)
           /\ \A i \in 1 .. Len(gw_calls) :
                  /\ gw_calls[i].call = "place_order"
                  /\ gw_calls[i].order.security = orders[i].security
                  /\ gw_calls[i].order.action = orders[i].action
                  /\ gw_calls[i].order.size = orders[i].size
                  /\ gw_calls[i].order.task_id = task_id
           /\ \A i, k \in 1 .. Len(gw_calls) :
                  i # k => gw_calls[i].order.entrust_no
                               # gw_calls[k].order.entrust_no
           /\ EntrustsOf(task_id)
                  = [i \in 1 .. Len(orders) |-> gw_calls[i].order.entrust_no]
           /\ (\E i \in 1 .. Len(gw_calls) : Truthy(gw_calls[i].err))
                  => Truthy(ret.value[2])

\* C5 witness: a batch of two orders whose second the gateway rejects
C5_Witness ==
    /\ ret.op = "place_batch_order"
    /\ Len(ret.args[1]) = 2
    /\ gw_calls[1].err = <<>>
    /\ Truthy(gw_calls[2].err)
    /\ Len(EntrustsOf(ret.value[1])) = 2

(***************************************************************************)
(* Claims on the diff against the ledger (under SpecDiff)                  *)
(***************************************************************************)
\* target_size - current_size of a goal, current_size 0 without a position
Delta(goal) ==
    goal.size - (IF goal.security \in DOMAIN position
                 THEN position[goal.security] ELSE 0)

\* C6: goal_portfolio emits no order for a goal with delta = 0, and for every
\* other goal exactly one order, in goal order: a BUY of |delta| when
\* delta > 0, a SELL of |delta| when delta < 0; all of them under one task_id.
C6_DiffEmitsOneOrderPerDelta ==
    (ret.op = "goal_portfolio" /\ ret.raised = "") =>
        LET goals == ret.args[1]
            moved == {i \in 1 .. Len(goals) : Delta(goals[i]) # 0}
            \* the goal behind the k-th order
            goal_of(k) == CHOOSE i \in moved :
                              Cardinality({j \in moved : j <= i}) = k
        IN /\ Len(gw_calls) = Cardinality(moved)
           /\ \A k \in 1 .. Len(gw_calls) :
                  LET goal == goals[goal_of(k)]
                      order == gw_calls[k].order
                  IN /\ gw_calls[k].call = "place_order"
                     /\ order.security = goal.security
                     /\ order.size = Abs(Delta(goal))
                     /\ order.action = IF Delta(goal) > 0 THEN BUY ELSE SELL
                     /\ order.task_id = gw_calls[1].order.task_id

\* C6 witness: one diff emits a BUY and a SELL
C6_Witness ==
    /\ ret.op = "goal_portfolio"
    /\ ret.raised = ""
    /\ Len(gw_calls) = 2
    /\ gw_calls[1].order.action = BUY
    /\ gw_calls[2].order.action = SELL
    /\ gw_calls[1].order.size = LotShares

(***************************************************************************)
(* Claims on the identifiers (under SpecIds)                               *)
(***************************************************************************)
RECURSIVE TotalLen(_)
\* the number of entries in the registry lists of the tasks in keys
TotalLen(keys) ==
    IF keys = {} THEN 0
    ELSE LET k == CHOOSE k \in keys : TRUE
         IN Len(task_map[k]) + TotalLen(keys \ {k})

CycleDone == ret.op = "re_balance_plan" /\ ret.raised = ""

\* C7: after a cycle, the target size of every security with non-zero weight
\* w is a number of shares, a multiple of the lot size:
\* round(w * C / p / 100) * 100, C the allocatable cash and p the price.
C7_GoalSizeIsLotMultiple ==
    CycleDone =>
        LET goals == Val(goal_positions)
            C == ret.value.cash_use
        IN \A k \in 1 .. Len(goals) :
               LET w == Val(weights)[goals[k].security]
                   p == Int2Rat(ret.args[2][goals[k].security])
               IN w[1] # 0 =>
                      goals[k].size
                          = Round(RDiv(RDiv(RMul(w, C), p), Int2Rat(LotShares)))
                                * LotShares

RECURSIVE GoalsValue(_, _)
\* sum of target_size * price over goals
GoalsValue(goals, prices) ==
    IF Len(goals) = 0 THEN 0
    ELSE goals[1].size * prices[goals[1].security]
             + GoalsValue(Tail(goals), prices)

RECURSIVE WeightSum(_, _)
\* sum of the weights of the securities in secs
WeightSum(w, secs) ==
    IF secs = {} THEN <<0, 1>>
    ELSE LET sec == CHOOSE x \in secs : TRUE
         IN RAdd(w[sec], WeightSum(w, secs \ {sec}))

\* C8: after a cycle with weights summing to at most 1, the goals valued at
\* the prices of the cycle plus the leftover of lot sizing do not exceed
\* cash_available * position_ratio, and cash is that leftover plus the
\* unallocated cash.
C8_CycleWithinAllocatableCash ==
    (CycleDone /\ RLeq(WeightSum(Val(weights), DOMAIN Val(weights)), <<1, 1>>))
        => /\ RLeq(RAdd(Int2Rat(GoalsValue(Val(goal_positions), ret.args[2])),
                        ret.value.cash_remain),
                   ret.value.cash_use)
           /\ cash = RAdd(ret.value.cash_remain, ret.value.cash_unuse)
           /\ ret.value.cash_unuse
                  = RSub(ret.value.cash_available, ret.value.cash_use)

\* C9: a cycle that aborts because all securities are suspended or because a
\* price is missing leaves weights, cash, goal_positions and the registry as
\* they were before it, and submits no order.
C9_AbortLeavesStateUntouched ==
    [][(/\ n_cycles' = n_cycles + 1
        /\ ret'.op = "re_balance_plan"
        /\ ret'.raised \in {AllSuspended, "MissingPrice"})
           => /\ weights' = weights
              /\ cash' = cash
              /\ goal_positions' = goal_positions
              /\ task_map' = task_map
              /\ gw_calls' = <<>>]_vars

\* C10: re_weight_suspension raises the all-suspended error if and only if
\* the set of suspended securities is the set of the universe.
C10_AllSuspendedIffWholeUniverse ==
    (ret.op = "re_weight_suspension" /\ ret.args[1] # None) =>
        LET suspensions == Val(ret.args[1])
        IN (ret.raised = AllSuspended)
               <=> ({suspensions[k] : k \in 1 .. Len(suspensions)}
                        = {universe[j] : j \in 1 .. Len(universe)})

\* the securities a list names
Named(l) == {l[k] : k \in 1 .. Len(l)}

\* C11: after re_weight_suspension has run on a non-empty list of suspended
\* securities that is a strict subset of the universe, the weight of every
\* suspended security is exactly 0.
C11_SuspendedWeightsZero ==
    (/\ ret.op = "re_weight_suspension"
     /\ ret.args[1] # None
     /\ weights # None
     /\ Named(Val(ret.args[1])) # {}
     /\ Named(Val(ret.args[1])) \subseteq Named(universe)
     /\ Named(Val(ret.args[1])) # Named(universe))
        => /\ ret.raised = ""
           /\ \A sec \in Named(Val(ret.args[1])) : Val(weights)[sec][1] = 0

(***************************************************************************)
(* Claims on the portfolio construction (under SpecConstruct)              *)
(***************************************************************************)
\* C12: equal_weight on a universe of N securities leaves weights in which
\* every universe member has weight 1/N and which sum to 1.
C12_EqualWeightSumsToOne ==
    (ret.op = "equal_weight" /\ Len(universe) > 0) =>
        /\ weights # None
        /\ DOMAIN Val(weights) = Named(universe)
        /\ \A sec \in Named(universe) :
               Val(weights)[sec] = Rat(1, Len(universe))
        /\ WeightSum(Val(weights), DOMAIN Val(weights)) = <<1, 1>>

(***************************************************************************)
(* Claims on the naive optimizer (under SpecOptimize)                      *)
(***************************************************************************)
\* the i-th candidate of a draw, as handed to util_func
Candidate(mat, i) == dict_of(universe, normalized(mat[i]))

\* the first experiment whose utility is the smallest of all
FirstMin(f) ==
    CHOOSE i \in 1 .. NExp :
        /\ \A k \in 1 .. NExp : f[i] <= f[k]
        /\ \A k \in 1 .. i - 1 : f[k] # f[i]

C14_UnknownMethodFailsAtActivation ==
    /\ (ret.op = "activate" /\ ret.args[1] \notin DOMAIN pc_methods)
           => ret.raised # ""
    /\ ret.op = "register_pc_method"
           => /\ ret.args[1].name \in DOMAIN pc_methods
              /\ pc_methods[ret.args[1].name]
                     = [func |-> ret.args[1].func,
                        options |-> ret.args[1].options]

\* the second half of C14 alone: a registration replaces the entry of its name
RegisterReplaces ==
    ret.op = "register_pc_method"
        => pc_methods[ret.args[1].name]
               = [func |-> ret.args[1].func, options |-> ret.args[1].options]

\* a cycle with an unregistered method active raises before it changes
\* weights, cash or goal_positions
UnknownMethodLeavesState ==
    [][(ret'.op = "re_balance_plan" /\ active_pc_method \notin DOMAIN pc_methods)
           => /\ ret'.raised = "KeyError"
              /\ UNCHANGED <<weights, cash, goal_positions>>]_vars

(***************************************************************************)
(* Claims on the execution algorithm of an order (under Spec)              *)
(***************************************************************************)
\* C15: place_order and place_batch_order reject a request that names an
\* execution algorithm: the call raises, mints no identifier, leaves the
\* registry as it was and calls the gateway for nothing.
C15_AlgoRejectedByPlaceAndBatch ==
    [][(\/ ret'.op = "place_order" /\ Truthy(ret'.args[4])
        \/ ret'.op = "place_batch_order" /\ Truthy(ret'.args[2]))
           => /\ ret'.raised # ""
              /\ seq_gen' = seq_gen
              /\ task_map' = task_map
              /\ gw_calls' = <<>>]_vars

\* the half of C15 on place_order alone
AlgoRejectedByPlace ==
    [][(ret'.op = "place_order" /\ Truthy(ret'.args[4]))
           => /\ ret'.raised = "NotImplementedError"
              /\ seq_gen' = seq_gen
              /\ task_map' = task_map
              /\ gw_calls' = <<>>]_vars

(***************************************************************************)
(* Claims on the stages of a cycle (under SpecBullets)                     *)
(***************************************************************************)
\* C16: a cycle runs construction, suspension adjustment, price fetch, lot
\* sizing, ledger diff, order emission and notification in this order: when
\* the cycle ends, the gateway has received one order for every goal that
\* differs from the position held.
C16_CycleEmitsOrdersBeforeNotify ==
    CycleDone =>
        Len(gw_calls)
            = Cardinality({k \in 1 .. Len(Val(goal_positions)) :
                               Delta(Val(goal_positions)[k]) # 0})

(***************************************************************************)
(* Claims on cancel_order next to place_order (under SpecInterleave)       *)
(***************************************************************************)
\* C17: when cancel_order runs between the statements of place_order, every
\* gateway cancel_order call is for an entrust_no whose order has been
\* recorded and handed to the gateway: none is for the order that a
\* place_order has minted and not yet submitted.
C17_CancelOnlyTargetsSubmitted ==
    (ret.op = "cancel_order" /\ placing # None) =>
        \A i \in 1 .. Len(gw_calls) :
            gw_calls[i].call = "cancel_order"
                => gw_calls[i].entrust_no # Val(placing).entrust_no

(***************************************************************************)
(* Claims on the built-in construction methods (under SpecConstruct)       *)
(***************************************************************************)
\* the active method is a built-in one, registered as init_from_config
\* registers it
BuiltinActive ==
    /\ active_pc_method \in {"equal_weight", "mc"}
    /\ active_pc_method \in DOMAIN pc_methods
    /\ pc_methods[active_pc_method]
           = IF active_pc_method = "equal_weight"
             THEN [func |-> "equal_weight", options |-> None]
             ELSE [func |-> "optimize_mc", options |-> Some(McOptions)]

\* C18: with equal_weight or mc active as registered at configuration,
\* portfolio_construction invokes the method with its registered options and
\* completes, leaving weights a mapping over the universe.
C18_BuiltinMethodsConstruct ==
    (ret.op = "portfolio_construction" /\ BuiltinActive) =>
        /\ ret.raised = ""
        /\ weights # None
        /\ DOMAIN Val(weights) = Named(universe)

\* the half of C18 on mc alone: the call completes
McConstructs ==
    (/\ ret.op = "portfolio_construction"
     /\ BuiltinActive
     /\ active_pc_method = "mc") => ret.raised = ""

(***************************************************************************)
(* Claims on missing prices (under SpecRebalance)                          *)
(***************************************************************************)
\* C19: a security of weight zero needs no price: a cycle stops for a missing
\* price only when a security whose weight is not zero has none.
C19_ZeroWeightNeedsNoPrice ==
    (/\ ret.op = "re_balance_plan"
     /\ ret.raised = "MissingPrice"
     /\ weights # None)
        => \E sec \in Named(universe) \ DOMAIN ret.args[2] :
               Val(weights)[sec][1] # 0

\* the half of C19 on lot sizing alone: in a cycle that ran to its end, a
\* security of weight zero has target size 0
ZeroWeightSizeZero ==
    CycleDone =>
        \A k \in 1 .. Len(Val(goal_positions)) :
            Val(weights)[Val(goal_positions)[k].security][1] = 0
                => Val(goal_positions)[k].size = 0

(***************************************************************************)
(* Claims on a search without result (under SpecRebalance)                 *)
(***************************************************************************)
\* C20: when the optimizer (mc, as registered at configuration) selects no
\* candidate, the cycle handles the None weights itself: it does not go on
\* to the suspension adjustment, the prices and the lot sizing (ret.args
\* holds what the cycle has fetched after the construction).
C20_NullWeightsStopTheCycle ==
    (/\ ret.op = "re_balance_plan"
     /\ BuiltinActive
     /\ active_pc_method = "mc"
     /\ weights = None)
        => /\ ret.args = <<>>
           /\ ret.raised \notin {"TypeError", "AttributeError"}

\* the half of C20 on the selection: without a utility below the initial
\* min_f, optimize_mc leaves weights None (under SpecOptimize)
NoCandidateSelected ==
    (ret.op = "optimize_mc" /\ \A i \in 1 .. NExp : ret.args[2][i] >= MinF)
        => weights = None

(***************************************************************************)
(* Claims on the task_id handed back to the caller (under Spec)            *)
(***************************************************************************)
\* the entrust_nos minted by the last operation, in order
Minted == [i \in 1 .. Len(gw_calls) |-> gw_calls[i].order.entrust_no]

\* C21: the task_id that place_order or place_batch_order returns is a key of
\* the registry, and its list is exactly the entrust_nos minted by the call.
C21_ReturnedTaskIdIsRecorded ==
    (ret.op \in {"place_order", "place_batch_order"} /\ ret.raised = "") =>
        /\ ret.value[1] \in DOMAIN task_map
        /\ task_map[ret.value[1]] = Minted

\* the cases of C21 that hold: a place_order the gateway accepted and a
\* place_batch_order of at least one order
AcceptedTaskIdIsRecorded ==
    (/\ ret.op \in {"place_order", "place_batch_order"}
     /\ ret.raised = ""
     /\ Len(gw_calls) > 0
     /\ ret.op = "place_order" => ~Truthy(gw_calls[1].err))
        => /\ ret.value[1] \in DOMAIN task_map
           /\ task_map[ret.value[1]] = Minted

(***************************************************************************)
(* Claims on the error string of a batch (under Spec)                      *)
(***************************************************************************)
\* C22: the error string that place_batch_order returns is empty if and only
\* if the gateway answered every order of the batch with an empty error.
C22_BatchErrorEmptyIffAllAccepted ==
    ret.op = "place_batch_order" =>
        (~Truthy(ret.value[2])
            <=> \A i \in 1 .. Len(gw_calls) : ~Truthy(gw_calls[i].err))

\* the cases of C22 that hold: batches of at most one order, and in any batch
\* a rejected order makes the string non-empty
BatchErrorOfShortBatch ==
    ret.op = "place_batch_order" =>
        /\ Len(gw_calls) <= 1
               => (~Truthy(ret.value[2])
                      <=> \A i \in 1 .. Len(gw_calls) : ~Truthy(gw_calls[i].err))
        /\ (\E i \in 1 .. Len(gw_calls) : Truthy(gw_calls[i].err))
               => Truthy(ret.value[2])

(***************************************************************************)
(* Claims on the delivery of events (under SpecEvents)                     *)
(***************************************************************************)
\* an indication is an order-status report
IsOrderStatus(ind) == "order_status" \in DOMAIN ind

\* C23: after the callbacks are registered, an order-status event reaches the
\* ledger through on_order_status and a trade event through on_trade_ind: no
\* order-status report is applied by on_trade_ind.
C23_StatusEventsNotAppliedAsTrades ==
    /\ ret.op = "on_trade_ind" => ~IsOrderStatus(ret.args[1])
    /\ ret.op = "on_order_status" => IsOrderStatus(ret.args[1])

\* the half of C23 on trade events: on_order_status never gets a trade
TradesNotAppliedAsStatus ==
    ret.op = "on_order_status" => IsOrderStatus(ret.args[1])

(***************************************************************************)
(* Claims on the goals of a cycle and the universe (under SpecUniverse)    *)
(***************************************************************************)
\* no security is named twice in the universe
NoRepeat == \A j, k \in 1 .. Len(universe) : universe[j] = universe[k] => j = k

\* C24: whatever add_universe calls built the universe, a security named
\* twice included, a completed cycle leaves as many goals as the universe has
\* entries, which is what goal_portfolio asserts of them.
C24_GoalsMatchUniverse ==
    CycleDone => Len(Val(goal_positions)) = Len(universe)

\* C24 for a universe that names no security twice
GoalsMatchDistinctUniverse ==
    (CycleDone /\ NoRepeat) => Len(Val(goal_positions)) = Len(universe)

====
